---- MODULE Spec2Model ----
(***************************************************************************)
(* Model of the two cldfbench scripts of lexibank/tjukabodyobject:         *)
(*   src/cldfbench_tjukabodyobject.py    (body/object colexifications)     *)
(*   src/cldfbench_lexibank_analysed.py  (phonology, lexicon, phonemes)    *)
(* Python values that may be None are boxed: None is <<>>, x is <<x>>.     *)
(* Collections whose length alone is read (forms, concepts, senses,        *)
(* bipa_forms, occs) are represented by that length.                       *)
(***************************************************************************)
EXTENDS Naturals, Sequences, FiniteSets, TLC

VARIABLES
  prog,           \* which command runs: "tjuka", "analysed", "download"
  pc,             \* position of the command
  concept_list,   \* rows of etc/Tjuka-2022-784.tsv
  features,       \* FeatureCollection built by the tjuka cmd_makecldf
  manifest,       \* rows of etc/lexibank.csv, in file order
  data,           \* dataset id -> languages its Wordlist has yielded so far
  queue,          \* dataset ids still to be loaded by the running pass
  cur,            \* dataset being iterated, or NULL
  idx,            \* number of languages of cur already iterated
  nlangs,         \* languages iterated in this run
  languages,      \* the OrderedDict `languages`, as a sequence of rows
  values,         \* the list `values` of the tjuka cmd_makecldf
  features_found, \* the set `features_found`
  objects,        \* writer.objects of every cldf_writer, by cldf_spec
  sounds,         \* the defaultdict(Counter) `sounds`
  err,            \* message of the AssertionError that ended the run, or NULL
  run,            \* number of the invocation of cmd_makecldf (1, 2)
  prev,           \* the previous invocation: its LanguageTable and manifest
  rows,           \* rows of etc/lexibank.tsv (download)
  row,            \* index of the manifest row cmd_download is at
  raw,            \* names of the directories under raw/
  raw0,           \* the directories under raw/ when cmd_download started
  tmp,            \* etc/tmp: NULL if absent, else <<set of subdirectories>>
  calls,          \* per manifest row, the calls made for it
  clts            \* whether the CLTS archive has been extracted

vars == <<prog, pc, concept_list, features, manifest, data, queue, cur, idx,
          nlangs, languages, values, features_found, objects, sounds, err,
          run, prev, rows, row, raw, raw0, tmp, calls, clts>>

makeVars == <<manifest, data, queue, cur, idx, nlangs, languages, values,
              features_found, objects, sounds, err, run, prev>>

downloadVars == <<rows, row, raw, raw0, tmp, calls, clts>>

----------------------------------------------------------------------------
(* Python values *)

NULL == <<>>

Some(x) == <<x>>

\* str(v) as used by '{}'.format(v)
Str(v) == IF v = NULL THEN "None" ELSE v[1]

\* '{}-{}'.format(a, b)
Fmt(a, b) == a \o "-" \o b

RECURSIVE Join(_)
\* ''.join(chars)
Join(chars) ==
  IF chars = <<>> THEN "" ELSE Head(chars) \o Join(Tail(chars))

RECURSIVE SelectSeqBy(_, _)
\* [x for x in s if x in keep] for a sequence of characters
SelectSeqBy(s, keep) ==
  IF s = <<>> THEN <<>>
  ELSE IF Head(s) \in keep
       THEN <<Head(s)>> \o SelectSeqBy(Tail(s), keep)
       ELSE SelectSeqBy(Tail(s), keep)

Range(s) == {s[i] : i \in 1..Len(s)}

\* the sequences over S of length at most n
SeqsUpTo(S, n) == UNION {[1..k -> S] : k \in 0..n}

----------------------------------------------------------------------------
(* csvw.utils.slug and str.capitalize over the characters of the glosses *)

Uppercase == <<"A", "D", "E", "F", "H", "I", "N", "O", "R", "S", "T", "W">>

Lowercase == <<"a", "d", "e", "f", "h", "i", "n", "o", "r", "s", "t", "w">>

Digits == {"0", "1", "2"}

IndexOf(s, c) == CHOOSE i \in 1..Len(s) : s[i] = c

\* str.lower of one character
Lower(c) == IF c \in Range(Uppercase) THEN Lowercase[IndexOf(Uppercase, c)] ELSE c

\* str.upper of one character
Upper(c) == IF c \in Range(Lowercase) THEN Uppercase[IndexOf(Lowercase, c)] ELSE c

\* slug(s): lower-case, then drop punctuation, whitespace and non-ASCII, so
\* that only [a-z0-9] is left
slug(s) ==
  SelectSeqBy([i \in 1..Len(s) |-> Lower(s[i])], Range(Lowercase) \cup Digits)

\* s.capitalize(): first character upper-cased, the rest lower-cased
capitalize(s) ==
  [i \in 1..Len(s) |-> IF i = 1 THEN Upper(s[i]) ELSE Lower(s[i])]

\* the two slugs the other way round
FeatureIdSwapped(bodypart, obj) ==
  Join(capitalize(slug(obj))) \o "And" \o Join(capitalize(slug(bodypart)))

\* '{}And{}'.format(slug(bodypart).capitalize(), slug(obj).capitalize())
FeatureId(bodypart, obj) ==
  Join(capitalize(slug(bodypart))) \o "And" \o Join(capitalize(slug(obj)))

\* Feature(id=..., name=..., function=Colexification(bodypart, obj)); a
\* Feature built without categories has categories None
ColexFeature(bodypart, obj) ==
  [id |-> FeatureId(bodypart, obj),
   name |-> "colexification of " \o Join(bodypart) \o " and " \o Join(obj),
   module |-> "lexicon",
   categories |-> <<>>,
   bodypart |-> bodypart,
   obj |-> obj]

RECURSIVE Glosses(_, _)
\* [row['CONCEPTICON_GLOSS'] for row in concept_list if row['GROUP'] == group]
Glosses(cl, group) ==
  IF cl = <<>> THEN <<>>
  ELSE IF Head(cl).GROUP = group
       THEN <<Head(cl).CONCEPTICON_GLOSS>> \o Glosses(Tail(cl), group)
       ELSE Glosses(Tail(cl), group)

\* the generator expression: for bodypart in bodyparts for obj in objects
CrossProduct(bodyparts, objs) ==
  [k \in 1..(Len(bodyparts) * Len(objs)) |->
     ColexFeature(bodyparts[((k - 1) \div Len(objs)) + 1],
                  objs[((k - 1) % Len(objs)) + 1])]

GenFeatures(cl) == CrossProduct(Glosses(cl, "body"), Glosses(cl, "object"))

----------------------------------------------------------------------------
(* The inputs: concept list, feature catalog, languages *)

HEAD == <<"H", "E", "A", "D">>

HAND == <<"H", "A", "N", "D">>

STONE == <<"S", "T", "O", "N", "E">>

FIREWOOD == <<"F", "I", "R", "E", "W", "O", "O", "D">>

FIRE_WOOD == <<"F", "I", "R", "E", " ", "W", "O", "O", "D">>

ConceptRow(gloss, group) == [CONCEPTICON_GLOSS |-> gloss, GROUP |-> group]

\* the concept list the language passes run with
ExampleConceptList ==
  <<ConceptRow(HEAD, "body"), ConceptRow(STONE, "object"),
    ConceptRow(FIREWOOD, "other"), ConceptRow(HAND, "body")>>

\* cltoolkit.features.FEATURES: id, defining module, categories (a dict, as
\* its items in order; empty when the feature has none)
FEATURES ==
  <<[id |-> "ConsonantQualitySize", name |-> "consonant quality size",
     module |-> "cltoolkit.features.phonology", categories |-> <<>>],
    [id |-> "HasNasalVowels", name |-> "has nasal vowels or not",
     module |-> "cltoolkit.features.phonology",
     categories |-> <<<<"true", "present">>, <<"false", "absent">>>>],
    [id |-> "LegAndFoot", name |-> "has the same word form for foot and leg",
     module |-> "cltoolkit.features.lexicon",
     categories |-> <<<<"true", "colexifies">>, <<"false", "differentiates">>,
                      <<"null", "missing data">>>>]>>

\* [f for f in FEATURES if f.function.__module__.endswith(suffix)]
FeaturesOf(suffix) ==
  SelectSeq(FEATURES, LAMBDA f : f.module = "cltoolkit.features." \o suffix)

LowVowel == <<"l", "o", "w", " ", "v", "o", "w", "e", "l">>

Nasal == <<"n", "a", "s", "a", "l">>

Segment(name, s, occs) == [name |-> name, s |-> s, occs |-> occs]

SegsA == <<Segment(LowVowel, <<"a">>, 3), Segment(LowVowel, <<"á">>, 2)>>

SegsB == <<Segment(Nasal, <<"n">>, 4), Segment(LowVowel, <<"á">>, 1)>>

\* an inventory with two segments of one name and glyph
SegsTwice == <<Segment(LowVowel, <<"a">>, 3), Segment(LowVowel, <<"a">>, 2)>>

\* what each feature function returns for a language
FvA ==
  ("HeadAndStone" :> Some(TRUE)) @@ ("HandAndStone" :> Some(FALSE)) @@
  ("ConsonantQualitySize" :> Some(20)) @@ ("HasNasalVowels" :> Some("true")) @@
  ("LegAndFoot" :> Some("true"))

FvB ==
  ("HeadAndStone" :> NULL) @@ ("HandAndStone" :> Some(TRUE)) @@
  ("ConsonantQualitySize" :> Some(0)) @@ ("HasNasalVowels" :> Some("false")) @@
  ("LegAndFoot" :> Some("null"))

FvBad ==
  ("HeadAndStone" :> Some(FALSE)) @@ ("HandAndStone" :> NULL) @@
  ("ConsonantQualitySize" :> Some(7)) @@ ("HasNasalVowels" :> Some("maybe")) @@
  ("LegAndFoot" :> NULL)

LangIds == {"l1", "l2"}

LangA(id) ==
  [id |-> id, name |-> Some("Foo"), glottocode |-> "fooo1234",
   dataset |-> "abvd", latitude |-> Some(10), longitude |-> Some(20),
   subgroup |-> "Oceanic", family |-> "Austronesian",
   forms |-> 400, forms_with_sounds |-> 390, concepts |-> 300,
   senses |-> 310, bipa_forms |-> 100, fv |-> FvA, segments |-> SegsA]

LangB(id) ==
  [id |-> id, name |-> Some("Bar"), glottocode |-> "barr1234",
   dataset |-> "bowernpny", latitude |-> Some(5), longitude |-> Some(0),
   subgroup |-> "Ngumpin", family |-> "Pama-Nyungan",
   forms |-> 260, forms_with_sounds |-> 0, concepts |-> 250,
   senses |-> 255, bipa_forms |-> 80, fv |-> FvB, segments |-> SegsB]

\* languages a Wordlist may yield
Languages ==
  {LangA(id) : id \in LangIds} \cup {LangB(id) : id \in LangIds} \cup
  {[LangA("l1") EXCEPT !.concepts = 249],
   [LangA("l2") EXCEPT !.bipa_forms = 79],
   [LangA("l1") EXCEPT !.name = NULL],
   [LangB("l1") EXCEPT !.name = Some("None")],
   [LangA("l1") EXCEPT !.latitude = NULL],
   [LangB("l1") EXCEPT !.latitude = Some(0)],
   [LangA("l1") EXCEPT !.fv = FvBad],
   [LangA("l2") EXCEPT !.segments = SegsTwice]}

\* len(getattr(language, attr))
Count(language, attr) ==
  CASE attr = "concepts" -> language.concepts
    [] attr = "forms" -> language.forms
    [] attr = "senses" -> language.senses
    [] attr = "bipa_forms" -> language.bipa_forms

\* feature(language)
Apply(feature, language) == language.fv[feature.id]

\* bool(v) of the value of a colexification: None and False are falsy
Truthy(v) == v # NULL /\ v # Some(FALSE)

IsCategorical(feature) == feature.categories # <<>>

\* v in feature.categories
InCategories(v, feature) ==
  v # NULL /\ \E i \in 1..Len(feature.categories) : feature.categories[i][1] = v[1]

\* '{}: "{}"'.format(feature.id, v), the message of the AssertionError
AssertionMessage(feature, v) == feature.id \o ": \"" \o Str(v) \o "\""

\* language.name is None or language.name == "None"
NameMissing(language) == language.name = NULL \/ language.name = Some("None")

\* bool(language.latitude): None and 0 are falsy
HasLatitude(language) == language.latitude # NULL /\ language.latitude # Some(0)

MinConcepts == 250

MinBipaForms == 80

\* CONDITIONS["ClicsCore"], and the lambda of the lexicon pass
ClicsCoreCondition(language) == language.concepts >= MinConcepts

\* the lambda of the phonology pass
PhonologyCondition(language) == language.bipa_forms >= MinBipaForms

Condition(pass, language) ==
  IF pass = "phonology" THEN PhonologyCondition(language)
  ELSE ClicsCoreCondition(language)

----------------------------------------------------------------------------
(* Bounds *)

\* languages iterated by one invocation of cmd_makecldf
MaxLangs == 2

\* rows of the concept list
MaxConcepts == 3

\* rows of etc/lexibank.tsv
MaxRows == 2

----------------------------------------------------------------------------
(* State shared by the two cmd_makecldf *)

EmptyTables ==
  [LanguageTable |-> <<>>, ValueTable |-> <<>>, ParameterTable |-> <<>>,
   CodeTable |-> <<>>]

NoObjects ==
  [phonology |-> EmptyTables, lexicon |-> EmptyTables, phonemes |-> EmptyTables]

\* ids of all dataset directories, in ascending string order
DatasetIds == <<"abvd", "bowernpny", "chenhmongmien">>

Wordlists == Range(DatasetIds) \cup {"lexicore", "clics"}

NoData == [w \in Wordlists |-> <<>>]

\* languages[language.id] = l on an OrderedDict: a known key keeps its place
DictSet(dict, l) ==
  IF \E i \in 1..Len(dict) : dict[i].ID = l.ID
  THEN [i \in 1..Len(dict) |-> IF dict[i].ID = l.ID THEN l ELSE dict[i]]
  ELSE Append(dict, l)

\* languages.get(id): the row, or NULL
DictGet(dict, id) ==
  IF \E i \in 1..Len(dict) : dict[i].ID = id
  THEN Some(dict[CHOOSE i \in 1..Len(dict) : dict[i].ID = id])
  ELSE NULL

\* the rows that describe the fixed attributes in the ParameterTable
AttrParameter(fid, fname, fdesc) == [ID |-> fid, Name |-> fname, Description |-> fdesc]

\* writer.objects['ParameterTable'].append(dict(ID=feature.id, ...))
FeatureParameter(feature) ==
  [ID |-> feature.id, Name |-> feature.name, Feature_Spec |-> feature.id]

\* the CodeTable rows of one feature
FeatureCodes(feature) ==
  [i \in 1..Len(feature.categories) |->
     [Parameter_ID |-> feature.id,
      ID |-> Fmt(feature.id, feature.categories[i][1]),
      Name |-> feature.categories[i][2]]]

RECURSIVE Concat(_)
\* the rows of several lists, in order
Concat(seqs) == IF seqs = <<>> THEN <<>> ELSE Head(seqs) \o Concat(Tail(seqs))

\* the attribute rows of the ValueTable for one language
AttrValues(language, attr_features) ==
  [k \in 1..Len(attr_features) |->
     [ID |-> Fmt(language.id, attr_features[k]),
      Language_ID |-> language.id,
      Parameter_ID |-> attr_features[k],
      Value |-> Count(language, attr_features[k])]]

\* the ValueTable row of one feature
FeatureValue(language, feature, v) ==
  [ID |-> Fmt(language.id, feature.id),
   Language_ID |-> language.id,
   Parameter_ID |-> feature.id,
   Value |-> v,
   Code_ID |-> IF IsCategorical(feature) THEN Some(Fmt(feature.id, Str(v))) ELSE NULL]

----------------------------------------------------------------------------
(* src/cldfbench_tjukabodyobject.py: dataset_meta, _datasets, cmd_makecldf *)

\* str.strip of a manifest cell
Strip(cell) == IF cell \in {"", " "} THEN "" ELSE IF cell = "x " THEN "x" ELSE cell

ManifestRow(dataset, zenodo, clicscore) ==
  [Dataset |-> dataset, Zenodo |-> zenodo, ClicsCore |-> clicscore]

\* the rows of etc/lexibank.csv, in any order
ManifestRows ==
  {ManifestRow("abvd", "10.5281/zenodo.1", "x"),
   ManifestRow("bowernpny", "10.5281/zenodo.2", "x "),
   ManifestRow("chenhmongmien", " ", "x")}

Perms(S) ==
  {p \in [1..Cardinality(S) -> S] : \A i, j \in 1..Cardinality(S) : i # j => p[i] # p[j]}

\* dataset_meta: the rows with a Zenodo DOI that are marked for ClicsCore
dataset_meta(m) ==
  SelectSeq(m, LAMBDA r : Strip(r.Zenodo) # "" /\ Strip(r.ClicsCore) = "x")

\* the ids before sorting
UnsortedDatasets(m) == [i \in 1..Len(dataset_meta(m)) |-> dataset_meta(m)[i].Dataset]

\* _datasets('ClicsCore'): sorted(set(dataset_ids))
_datasets(m) ==
  SelectSeq(DatasetIds, LAMBDA d : \E i \in 1..Len(dataset_meta(m)) : dataset_meta(m)[i].Dataset = d)

attr_features == <<"concepts", "forms", "senses">>

T_AttrParameters ==
  <<AttrParameter("concepts", "Number of concepts", "Number of senses linked to Concepticon"),
    AttrParameter("forms", "Number of forms", ""),
    AttrParameter("senses", "Number of senses", "")>>

\* the loop without the test of the latitude
T_IncludedNoLatitude(language) ==
  ~NameMissing(language) /\ ClicsCoreCondition(language)

\* the two `continue` tests of the language loop
T_Included(language) ==
  ~NameMissing(language) /\ HasLatitude(language) /\ ClicsCoreCondition(language)

\* the new row of `languages`
T_NewRow(language) ==
  [ID |-> language.id, Name |-> language.name, Glottocode |-> language.glottocode,
   Dataset |-> language.dataset, Latitude |-> language.latitude,
   Longitude |-> language.longitude, Subgroup |-> language.subgroup,
   Family |-> language.family, Forms |-> language.forms,
   FormsWithSounds |-> language.forms_with_sounds,
   Concepts |-> language.concepts, Incollections |-> "ClicsCore"]

\* every occurrence writes a new row
T_LastWriterRow(dict, language) == T_NewRow(language)

\* l = languages.get(language.id); new row, or the known row with the
\* collection appended to Incollections
T_Row(dict, language) ==
  IF DictGet(dict, language.id) = NULL
  THEN T_NewRow(language)
  ELSE [DictGet(dict, language.id)[1] EXCEPT !.Incollections = @ \o "ClicsCore"]

RECURSIVE T_FeatureLoop(_, _, _)
\* for feature in features: ... ; acc is (values, features_found, err)
T_FeatureLoop(fs, language, acc) ==
  IF fs = <<>> \/ acc.err # NULL THEN acc
  ELSE LET feature == Head(fs)
           v == Apply(feature, language)
       IN IF ~Truthy(v)
          THEN T_FeatureLoop(Tail(fs), language, acc)
          ELSE IF IsCategorical(feature) /\ ~InCategories(v, feature)
          THEN [acc EXCEPT !.found = @ \cup {feature.id},
                           !.err = Some(AssertionMessage(feature, v))]
          ELSE T_FeatureLoop(Tail(fs), language,
                 [acc EXCEPT !.found = @ \cup {feature.id},
                             !.values = Append(@, FeatureValue(language, feature, v))])

\* cmd_makecldf up to the language loop: the features, and the parameters
\* of the fixed attributes
T_Begin ==
  /\ prog = "tjuka" /\ pc = "start"
  /\ features' = GenFeatures(concept_list)
  /\ objects' = [objects EXCEPT !.lexicon.ParameterTable = T_AttrParameters]
  /\ queue' = _datasets(manifest)
  /\ pc' = "languages"
  /\ UNCHANGED <<prog, concept_list, manifest, data, cur, idx, nlangs, languages,
                 values, features_found, sounds, err, run, prev>>
  /\ UNCHANGED downloadVars

\* for dataset in self._datasets('ClicsCore'): wordlist = Wordlist([dataset])
T_NextDataset ==
  /\ prog = "tjuka" /\ pc = "languages" /\ cur = NULL /\ queue # <<>>
  /\ cur' = Some(Head(queue))
  /\ queue' = Tail(queue)
  /\ idx' = 0
  /\ UNCHANGED <<prog, pc, concept_list, features, manifest, data, nlangs, languages,
                 values, features_found, objects, sounds, err, run, prev>>
  /\ UNCHANGED downloadVars

\* one iteration of `for language in wordlist.languages`
T_Process(language) ==
  /\ idx' = idx + 1
  /\ nlangs' = nlangs + 1
  /\ IF ~T_Included(language)
     THEN UNCHANGED <<languages, values, features_found, err, pc>>
     ELSE LET l == T_Row(languages, language)
              acc == T_FeatureLoop(features, language,
                       [values |-> values \o AttrValues(language, attr_features),
                        found |-> features_found, err |-> NULL])
          IN /\ languages' = DictSet(languages, l)
             /\ values' = acc.values
             /\ features_found' = acc.found
             /\ err' = acc.err
             /\ pc' = IF acc.err = NULL THEN pc ELSE "failed"

\* the wordlist yields its next language: one it yielded in an earlier
\* invocation, or (first invocation) a language not seen before
T_Language ==
  /\ prog = "tjuka" /\ pc = "languages" /\ cur # NULL
  /\ \/ /\ idx < Len(data[cur[1]])
        /\ T_Process(data[cur[1]][idx + 1])
        /\ UNCHANGED data
     \/ /\ idx = Len(data[cur[1]]) /\ run = 1 /\ nlangs < MaxLangs
        /\ \E sample \in Languages :
             LET language == [sample EXCEPT !.dataset = cur[1]]
             IN /\ data' = [data EXCEPT ![cur[1]] = Append(@, language)]
                /\ T_Process(language)
  /\ UNCHANGED <<prog, concept_list, features, manifest, queue, cur, objects,
                 sounds, run, prev>>
  /\ UNCHANGED downloadVars

\* the wordlist of the dataset is exhausted
T_EndDataset ==
  /\ prog = "tjuka" /\ pc = "languages" /\ cur # NULL
  /\ idx = Len(data[cur[1]])
  /\ cur' = NULL
  /\ UNCHANGED <<prog, pc, concept_list, features, manifest, data, queue, idx, nlangs,
                 languages, values, features_found, objects, sounds, err, run, prev>>
  /\ UNCHANGED downloadVars

\* no feature is skipped
T_AllFeatures(fs, found) == fs

\* the features that go to the ParameterTable: those in features_found
T_FoundFeatures(fs, found) == SelectSeq(fs, LAMBDA f : f.id \in found)

\* after the loop: the tables are handed to the writer
T_Write ==
  /\ prog = "tjuka" /\ pc = "languages" /\ cur = NULL /\ queue = <<>>
  /\ LET kept == T_FoundFeatures(features, features_found)
     IN objects' = [objects EXCEPT
          !.lexicon.LanguageTable = languages,
          !.lexicon.ValueTable = values,
          !.lexicon.ParameterTable =
             @ \o [i \in 1..Len(kept) |-> FeatureParameter(kept[i])],
          !.lexicon.CodeTable =
             @ \o Concat([i \in 1..Len(kept) |-> FeatureCodes(kept[i])])]
  /\ pc' = "done"
  /\ UNCHANGED <<prog, concept_list, features, manifest, data, queue, cur, idx, nlangs,
                 languages, values, features_found, sounds, err, run, prev>>
  /\ UNCHANGED downloadVars

\* cmd_makecldf is invoked again, the manifest rows possibly reordered
T_Rerun ==
  /\ prog = "tjuka" /\ pc = "done" /\ run = 1
  /\ run' = 2
  /\ prev' = Some([LanguageTable |-> objects.lexicon.LanguageTable, manifest |-> manifest])
  /\ manifest' \in Perms(Range(manifest))
  /\ pc' = "start"
  /\ features' = <<>>
  /\ queue' = <<>> /\ cur' = NULL /\ idx' = 0 /\ nlangs' = 0
  /\ languages' = <<>> /\ values' = <<>> /\ features_found' = {}
  /\ objects' = NoObjects
  /\ UNCHANGED <<prog, concept_list, data, sounds, err>>
  /\ UNCHANGED downloadVars

InitMake ==
  /\ pc = "start"
  /\ features = <<>>
  /\ data = NoData
  /\ queue = <<>> /\ cur = NULL /\ idx = 0 /\ nlangs = 0
  /\ languages = <<>> /\ values = <<>> /\ features_found = {}
  /\ objects = NoObjects
  /\ sounds = <<>>
  /\ err = NULL
  /\ run = 1 /\ prev = NULL

InitNoDownload ==
  /\ rows = <<>> /\ row = 0 /\ raw = {} /\ raw0 = {} /\ tmp = NULL
  /\ calls = <<>> /\ clts = FALSE

----------------------------------------------------------------------------
(* src/cldfbench_lexibank_analysed.py: cmd_makecldf *)

\* _add_languages without the test of the latitude
IncludedNoLatitude(pass, language) ==
  ~NameMissing(language) /\ Condition(pass, language)

\* _add_languages: the test of the name, then latitude and condition
Included(pass, language) ==
  ~NameMissing(language) /\ HasLatitude(language) /\ Condition(pass, language)

A_AttrFeatures(pass) ==
  IF pass = "phonology" THEN <<"concepts", "forms", "bipa_forms", "senses">>
  ELSE <<"concepts", "forms", "senses">>

A_AttrParameters(pass) ==
  IF pass = "phonology"
  THEN <<AttrParameter("concepts", "Number of concepts", "Number of senses linked to Concepticon"),
         AttrParameter("forms", "Number of forms", ""),
         AttrParameter("bipa_forms", "Number of BIPA conforming forms", ""),
         AttrParameter("senses", "Number of senses", "")>>
  ELSE T_AttrParameters

\* the row _add_language builds
A_Row(language) ==
  [ID |-> language.id, Name |-> language.name, Glottocode |-> language.glottocode,
   Dataset |-> language.dataset, Latitude |-> language.latitude,
   Longitude |-> language.longitude, Subgroup |-> language.subgroup,
   Family |-> language.family]

RECURSIVE A_FeatureLoopUnchecked(_, _, _)
\* the feature loop without the assert
A_FeatureLoopUnchecked(fs, language, acc) ==
  IF fs = <<>> THEN acc
  ELSE A_FeatureLoopUnchecked(Tail(fs), language,
         [acc EXCEPT !.values =
            Append(@, FeatureValue(language, Head(fs), Apply(Head(fs), language)))])

RECURSIVE A_FeatureLoop(_, _, _)
\* the feature loop of _add_language; acc is (values, err)
A_FeatureLoop(fs, language, acc) ==
  IF fs = <<>> \/ acc.err # NULL THEN acc
  ELSE LET feature == Head(fs)
           v == Apply(feature, language)
       IN IF IsCategorical(feature) /\ ~InCategories(v, feature)
          THEN [acc EXCEPT !.err = Some(AssertionMessage(feature, v))]
          ELSE A_FeatureLoop(Tail(fs), language,
                 [acc EXCEPT !.values = Append(@, FeatureValue(language, feature, v))])

\* _add_features
A_AddFeatures(tables, fs) ==
  [tables EXCEPT
     !.ParameterTable = @ \o [i \in 1..Len(fs) |-> FeatureParameter(fs[i])],
     !.CodeTable = @ \o Concat([i \in 1..Len(fs) |-> FeatureCodes(fs[i])])]

\* str.replace(' ', '_')
ReplaceSpaces(s) == [i \in 1..Len(s) |-> IF s[i] = " " THEN "_" ELSE s[i]]

\* a Counter, as its items in insertion order: c[lid] = n
CounterSet(c, lid, n) ==
  IF \E i \in 1..Len(c) : c[i][1] = lid
  THEN [i \in 1..Len(c) |-> IF c[i][1] = lid THEN <<lid, n>> ELSE c[i]]
  ELSE Append(c, <<lid, n>>)

\* c[lid], 0 for a missing key
CounterGet(c, lid) ==
  IF \E i \in 1..Len(c) : c[i][1] = lid
  THEN c[CHOOSE i \in 1..Len(c) : c[i][1] = lid][2]
  ELSE 0

\* c[lid] += n
CounterAdd(c, lid, n) == CounterSet(c, lid, CounterGet(c, lid) + n)

\* sounds[key], a defaultdict: a missing key reads as an empty Counter
SoundsGet(snd, key) == IF key \in DOMAIN snd THEN snd[key] ELSE <<>>

\* sounds[key][lid] = n
SoundsSet(snd, key, lid, n) ==
  [k \in DOMAIN snd \cup {key} |->
     IF k = key THEN CounterSet(SoundsGet(snd, key), lid, n) ELSE snd[k]]

RECURSIVE Tally(_, _, _)
\* for sound in language.sound_inventory.segments: sounds[...][id] = len(occs)
Tally(segs, lid, snd) ==
  IF segs = <<>> THEN snd
  ELSE Tally(Tail(segs), lid,
         SoundsSet(snd, <<ReplaceSpaces(Head(segs).name), Head(segs).s>>,
                   lid, Head(segs).occs))

\* cmd_makecldf up to the phonology pass
A_BeginPhonology ==
  /\ prog = "analysed" /\ pc = "start"
  /\ objects' = [objects EXCEPT !.phonology =
       A_AddFeatures([@ EXCEPT !.ParameterTable = A_AttrParameters("phonology")],
                     FeaturesOf("phonology"))]
  /\ cur' = Some("lexicore")
  /\ pc' = "phonology"
  /\ UNCHANGED <<prog, concept_list, features, manifest, data, queue, idx, nlangs,
                 languages, values, features_found, sounds, err, run, prev>>
  /\ UNCHANGED downloadVars

\* _add_language, and for the phonology pass the tally of the sounds
A_AddLanguage(pass, language) ==
  LET l == A_Row(language)
      acc == A_FeatureLoop(FeaturesOf(pass), language,
               [values |-> objects[pass].ValueTable \o AttrValues(language, A_AttrFeatures(pass)),
                err |-> NULL])
  IN /\ languages' = DictSet(languages, l)
     /\ objects' = [objects EXCEPT ![pass].LanguageTable = Append(@, l),
                                   ![pass].ValueTable = acc.values]
     /\ err' = acc.err
     /\ pc' = IF acc.err = NULL THEN pc ELSE "failed"
     /\ sounds' = IF acc.err = NULL /\ pass = "phonology"
                  THEN Tally(language.segments, language.id, sounds)
                  ELSE sounds

\* one iteration of the loop of _add_languages, in either pass
A_Language ==
  /\ prog = "analysed" /\ pc \in {"phonology", "lexicon"}
  /\ nlangs < MaxLangs
  /\ \E language \in Languages :
       /\ data' = [data EXCEPT ![cur[1]] = Append(@, language)]
       /\ nlangs' = nlangs + 1
       /\ IF Included(pc, language)
          THEN A_AddLanguage(pc, language)
          ELSE UNCHANGED <<languages, objects, err, pc, sounds>>
  /\ UNCHANGED <<prog, concept_list, features, manifest, queue, cur, idx,
                 values, features_found, run, prev>>
  /\ UNCHANGED downloadVars

\* the phonology wordlist is exhausted: the lexicon writer is set up
A_BeginLexicon ==
  /\ prog = "analysed" /\ pc = "phonology"
  /\ objects' = [objects EXCEPT !.lexicon =
       A_AddFeatures([@ EXCEPT !.ParameterTable = A_AttrParameters("lexicon")],
                     FeaturesOf("lexicon"))]
  /\ cur' = Some("clics")
  /\ pc' = "lexicon"
  /\ UNCHANGED <<prog, concept_list, features, manifest, data, queue, idx, nlangs,
                 languages, values, features_found, sounds, err, run, prev>>
  /\ UNCHANGED downloadVars

\* code points of the characters of segment names and glyphs
Ord(c) ==
  CASE c = " " -> 32 [] c = "_" -> 95 [] c = "a" -> 97 [] c = "e" -> 101
    [] c = "l" -> 108 [] c = "n" -> 110 [] c = "o" -> 111 [] c = "s" -> 115
    [] c = "v" -> 118 [] c = "w" -> 119 [] c = "á" -> 225

\* s < t for strings (sequences of characters)
StrLess(s, t) ==
  \E i \in 1..(Len(t)) :
     /\ \A j \in 1..(i - 1) : j <= Len(s) /\ s[j] = t[j]
     /\ \/ i = Len(s) + 1
        \/ i <= Len(s) /\ Ord(s[i]) < Ord(t[i])

\* k1 < k2 for keys (clts_id, glyph)
KeyLess(k1, k2) ==
  StrLess(k1[1], k2[1]) \/ (k1[1] = k2[1] /\ StrLess(k1[2], k2[2]))

RECURSIVE Sorted(_)
\* sorted(keys)
Sorted(keys) ==
  IF keys = {} THEN <<>>
  ELSE LET m == CHOOSE k \in keys : \A o \in keys \ {k} : KeyLess(k, o)
       IN <<m>> \o Sorted(keys \ {m})

RECURSIVE GroupBy(_, _)
\* itertools.groupby(keys, lambda k: k[0]), each group as (clts_id, glyphs)
GroupBy(keys, groups) ==
  IF keys = <<>> THEN groups
  ELSE LET k == Head(keys)
           n == Len(groups)
       IN IF n > 0 /\ groups[n][1] = k[1]
          THEN GroupBy(Tail(keys), [groups EXCEPT ![n][2] = Append(@, k[2])])
          ELSE GroupBy(Tail(keys), Append(groups, <<k[1], <<k[2]>>>>))

RECURSIVE JoinWith(_, _)
\* sep.join(strs)
JoinWith(sep, strs) ==
  IF strs = <<>> THEN ""
  ELSE IF Len(strs) = 1 THEN Join(Head(strs))
  ELSE Join(Head(strs)) \o sep \o JoinWith(sep, Tail(strs))

RECURSIVE CounterUpdate(_, _)
\* occs.update(**counter): the counts are added
CounterUpdate(occs, counter) ==
  IF counter = <<>> THEN occs
  ELSE CounterUpdate(CounterAdd(occs, Head(counter)[1], Head(counter)[2]), Tail(counter))

\* only the Counter of the last glyph
SumGlyphsLast(snd, clts_id, glyphs, occs) ==
  IF glyphs = <<>> THEN occs ELSE SoundsGet(snd, <<clts_id, glyphs[Len(glyphs)]>>)

RECURSIVE SumGlyphs(_, _, _, _)
\* for glyph in glyphs: occs.update(**sounds[clts_id, glyph])
SumGlyphs(snd, clts_id, glyphs, occs) ==
  IF glyphs = <<>> THEN occs
  ELSE SumGlyphs(snd, clts_id, Tail(glyphs),
                 CounterUpdate(occs, SoundsGet(snd, <<clts_id, Head(glyphs)>>)))

\* the ParameterTable row of one canonical segment
PhonemeParameter(clts_id, glyphs) ==
  [ID |-> Join(clts_id), Name |-> JoinWith(" / ", glyphs), CLTS_ID |-> Join(clts_id)]

\* the ValueTable rows of one canonical segment
PhonemeValues(clts_id, occs) ==
  [i \in 1..Len(occs) |->
     [ID |-> Fmt(occs[i][1], Join(clts_id)),
      Language_ID |-> occs[i][1],
      Parameter_ID |-> Join(clts_id),
      Value |-> occs[i][2]]]

\* the lexicon wordlist is exhausted: the phonemes dataset is written
A_Phonemes ==
  /\ prog = "analysed" /\ pc = "lexicon"
  /\ LET groups == GroupBy(Sorted(DOMAIN sounds), <<>>)
     IN objects' = [objects EXCEPT
          !.phonemes.LanguageTable = languages,
          !.phonemes.ParameterTable =
             [i \in 1..Len(groups) |-> PhonemeParameter(groups[i][1], groups[i][2])],
          !.phonemes.ValueTable =
             Concat([i \in 1..Len(groups) |->
                PhonemeValues(groups[i][1],
                              SumGlyphs(sounds, groups[i][1], groups[i][2], <<>>))])]
  /\ pc' = "done"
  /\ cur' = NULL
  /\ UNCHANGED <<prog, concept_list, features, manifest, data, queue, idx, nlangs,
                 languages, values, features_found, sounds, err, run, prev>>
  /\ UNCHANGED downloadVars

InitAnalysed ==
  /\ prog = "analysed"
  /\ concept_list = <<>>
  /\ manifest = <<>>
  /\ InitMake
  /\ InitNoDownload

InitTjuka ==
  /\ prog = "tjuka"
  /\ concept_list = ExampleConceptList
  /\ manifest \in Perms(ManifestRows)
  /\ InitMake
  /\ InitNoDownload

----------------------------------------------------------------------------
(* src/cldfbench_lexibank_analysed.py: download_from_doi, cmd_download *)

DownloadRow(dataset, zenodo, lexicore, clicscore) ==
  [Dataset |-> dataset, Organization |-> "lexibank", Zenodo |-> zenodo,
   LexiCore |-> lexicore, ClicsCore |-> clicscore]

\* rows of etc/lexibank.tsv: with a DOI, without one, in no collection
DownloadRows ==
  UNION {{DownloadRow(d, "10.5281/zenodo.1", "x", ""),
          DownloadRow(d, "", "x ", "x"),
          DownloadRow(d, "10.5281/zenodo.1", " ", "")} : d \in Range(DatasetIds)}

\* a Zenodo record unpacks into directories; `in` names the datasets whose
\* name is a substring of the directory name
Archive(name, in) == [name |-> name, in |-> in]

Archives ==
  {Archive("lexibank-abvd-0a1b2c", {"abvd"}),
   Archive("lexibank-bowernpny-3d4e5f", {"bowernpny"}),
   Archive("cldf-datasets-7a8b9c", {})}

\* what the two requests of download_from_doi come back with: whether the
\* export page has a <pre> that parses as JSON, whether it contains
\* 'Too many requests', whether the keywords name CLDF, the types of the
\* files, and what the zip files unpack into
Responses ==
  {[pre |-> FALSE, too_many |-> TRUE, cldf |-> FALSE, files |-> <<>>, unpacked |-> {}],
   [pre |-> FALSE, too_many |-> FALSE, cldf |-> FALSE, files |-> <<>>, unpacked |-> {}],
   [pre |-> TRUE, too_many |-> FALSE, cldf |-> FALSE, files |-> <<"zip">>, unpacked |-> {}],
   [pre |-> TRUE, too_many |-> TRUE, cldf |-> TRUE, files |-> <<"zip", "gz">>, unpacked |-> {}]}
  \cup {[pre |-> TRUE, too_many |-> FALSE, cldf |-> TRUE, files |-> <<"zip">>,
         unpacked |-> {a}] : a \in Archives}

\* download_from_doi: the exception it raises (or "ok"), and what it has
\* extracted into outdir by then
download_from_doi(response) ==
  IF ~response.pre
  THEN [raises |-> IF response.too_many THEN "TooManyRequests" ELSE "ValueError",
        extracted |-> {}]
  ELSE IF ~response.cldf
  THEN [raises |-> "AssertionError", extracted |-> {}]
  ELSE IF \E i \in 1..Len(response.files) : response.files[i] = "gz"
  THEN [raises |-> "NotImplementedError", extracted |-> response.unpacked]
  ELSE [raises |-> "ok", extracted |-> response.unpacked]

\* the loop going on with the next row
AfterTooManyRequestsContinue == "rows"

\* where cmd_download goes on after `except TooManyRequests`: it returns
AfterTooManyRequests == "aborted"

NoCalls == [i \in 1..Len(rows) |-> <<>>]

\* the record of what was done for the row cmd_download is at
Called(what) == [calls EXCEPT ![row + 1] = @ \o what]

\* the row is in no collection, or its directory exists
D_Skip ==
  /\ prog = "download" /\ pc = "rows" /\ row < Len(rows)
  /\ LET r == rows[row + 1]
     IN \/ Strip(r.LexiCore) = "" /\ Strip(r.ClicsCore) = ""
        \/ r.Dataset \in raw
  /\ row' = row + 1
  /\ UNCHANGED <<prog, pc, concept_list, features, rows, raw, raw0, tmp, calls, clts>>
  /\ UNCHANGED makeVars

\* the row has a DOI: the record is downloaded from Zenodo into etc/tmp and
\* the directory of the dataset is renamed into raw/
D_Zenodo ==
  /\ prog = "download" /\ pc = "rows" /\ row < Len(rows)
  /\ LET r == rows[row + 1]
     IN /\ ~(Strip(r.LexiCore) = "" /\ Strip(r.ClicsCore) = "")
        /\ r.Dataset \notin raw
        /\ r.Zenodo # ""
        /\ \E response \in Responses :
             LET res == download_from_doi(response)
                 dirs == (IF tmp = NULL THEN {} ELSE tmp[1]) \cup res.extracted
                 hits == {a \in dirs : r.Dataset \in a.in}
             IN CASE res.raises = "TooManyRequests" ->
                       /\ pc' = AfterTooManyRequests
                       /\ tmp' = Some(dirs)
                       /\ calls' = Called(<<"download_from_doi", "TooManyRequests">>)
                       /\ UNCHANGED raw
                  [] res.raises = "ok" /\ hits = {} ->
                       /\ pc' = pc
                       /\ tmp' = IF dirs = {} THEN NULL ELSE Some(dirs)
                       /\ calls' = Called(<<"download_from_doi">>)
                       /\ UNCHANGED raw
                  [] res.raises = "ok" /\ hits # {} ->
                       \E a \in hits :
                         /\ pc' = pc
                         /\ raw' = raw \cup {r.Dataset}
                         /\ tmp' = IF dirs \ {a} = {} THEN NULL ELSE Some(dirs \ {a})
                         /\ calls' = Called(<<"download_from_doi", "rename">>)
                  [] OTHER ->
                       /\ pc' = "crashed"
                       /\ tmp' = Some(dirs)
                       /\ calls' = Called(<<"download_from_doi", res.raises>>)
                       /\ UNCHANGED raw
  /\ row' = row + 1
  /\ UNCHANGED <<prog, concept_list, features, rows, raw0, clts>>
  /\ UNCHANGED makeVars

\* the row has no DOI: the repository is cloned from GitHub
D_Clone ==
  /\ prog = "download" /\ pc = "rows" /\ row < Len(rows)
  /\ LET r == rows[row + 1]
     IN /\ ~(Strip(r.LexiCore) = "" /\ Strip(r.ClicsCore) = "")
        /\ r.Dataset \notin raw
        /\ r.Zenodo = ""
        /\ \/ /\ raw' = raw \cup {r.Dataset}
              /\ calls' = Called(<<"clone_from">>)
           \/ /\ raw' = raw
              /\ calls' = Called(<<"clone_from", "GitCommandError">>)
  /\ row' = row + 1
  /\ UNCHANGED <<prog, pc, concept_list, features, rows, raw0, tmp, clts>>
  /\ UNCHANGED makeVars

\* after the loop: the CLTS archive is downloaded and extracted into raw/
D_Clts ==
  /\ prog = "download" /\ pc = "rows" /\ row = Len(rows)
  /\ clts' = TRUE
  /\ pc' = "done"
  /\ UNCHANGED <<prog, concept_list, features, rows, row, raw, raw0, tmp, calls>>
  /\ UNCHANGED makeVars

\* manifests of up to n rows, no dataset twice
Manifests(n) ==
  {m \in SeqsUpTo(DownloadRows, n) :
     \A i, j \in 1..Len(m) : i # j => m[i].Dataset # m[j].Dataset}

InitDownload ==
  /\ prog = "download"
  /\ pc = "rows"
  /\ concept_list = <<>>
  /\ features = <<>>
  /\ manifest = <<>>
  /\ data = NoData
  /\ queue = <<>> /\ cur = NULL /\ idx = 0 /\ nlangs = 0
  /\ languages = <<>> /\ values = <<>> /\ features_found = {}
  /\ objects = NoObjects
  /\ sounds = <<>>
  /\ err = NULL
  /\ run = 1 /\ prev = NULL
  /\ rows \in Manifests(MaxRows)
  /\ row = 0
  /\ raw0 \in SUBSET {"abvd", "bowernpny"}
  /\ raw = raw0
  /\ tmp \in {NULL, Some({}), Some({Archive("lexibank-bowernpny-3d4e5f", {"bowernpny"})})}
  /\ calls = NoCalls
  /\ clts = FALSE

SpecDownload == InitDownload /\ [][D_Skip \/ D_Zenodo \/ D_Clone \/ D_Clts]_vars

----------------------------------------------------------------------------
(* src/cldfbench_tjukabodyobject.py: cmd_download *)

\* what oai_lexibank() lists for a DOI: the release tag ("" when none)
GithubInfo(tag) == [tag |-> tag]

\* a row of etc/lexibank.csv together with github_info[row['Zenodo']] (NULL
\* when oai_lexibank() does not list the DOI) and the branches of the
\* repository
GithubRow(dataset, zenodo, ghinfo, branches) ==
  [Dataset |-> dataset, Zenodo |-> zenodo, ClicsCore |-> "x",
   ghinfo |-> ghinfo, branches |-> branches]

GithubRows ==
  UNION {{GithubRow(d, "10.5281/zenodo.1", Some(GithubInfo("v1.0")), {"main"}),
          GithubRow(d, "10.5281/zenodo.1", Some(GithubInfo("")), {"main", "master"}),
          GithubRow(d, "10.5281/zenodo.1", Some(GithubInfo("")), {"master"}),
          GithubRow(d, "10.5281/zenodo.1", Some(GithubInfo("")), {}),
          GithubRow(d, "10.5281/zenodo.1", NULL, {"main"}),
          GithubRow(d, " ", Some(GithubInfo("v1.0")), {"main"})} : d \in Range(DatasetIds)}

\* "check out release (fall back to master branch)": the calls made on the
\* repository; without a tag the branch checkout is followed by a merge
G_Checkout(r) ==
  IF r.ghinfo[1].tag # "" THEN <<"checkout_tag">>
  ELSE (IF "main" \in r.branches THEN <<"checkout_main">>
        ELSE IF "master" \in r.branches THEN <<"checkout_master">>
        ELSE <<"no_branch">>) \o <<"merge">>

\* the loop stopping at a failed clone
G_AfterCloneFailureAbort == "crashed"

\* where cmd_download goes on after `except GitCommandError`: `continue`
G_AfterCloneFailure == "rows"

\* github_info[row['Zenodo']] raises KeyError
G_NotListed ==
  /\ prog = "fetch" /\ pc = "rows" /\ row < Len(dataset_meta(manifest))
  /\ dataset_meta(manifest)[row + 1].ghinfo = NULL
  /\ calls' = Called(<<"KeyError">>)
  /\ pc' = "crashed"
  /\ row' = row + 1
  /\ UNCHANGED <<prog, concept_list, features, rows, raw, raw0, tmp, clts>>
  /\ UNCHANGED makeVars

\* the directory of the dataset exists: its remotes are fetched, then the
\* release is checked out
G_Existing ==
  /\ prog = "fetch" /\ pc = "rows" /\ row < Len(dataset_meta(manifest))
  /\ LET r == dataset_meta(manifest)[row + 1]
     IN /\ r.ghinfo # NULL
        /\ r.Dataset \in raw
        /\ \/ /\ calls' = Called(<<"fetch">> \o G_Checkout(r))
              /\ pc' = pc
           \/ /\ calls' = Called(<<"fetch", "GitCommandError">>)
              /\ pc' = "crashed"
  /\ row' = row + 1
  /\ UNCHANGED <<prog, concept_list, features, rows, raw, raw0, tmp, clts>>
  /\ UNCHANGED makeVars

\* the directory does not exist: the repository is cloned and the release
\* checked out, or the clone fails and the loop continues
G_Clone ==
  /\ prog = "fetch" /\ pc = "rows" /\ row < Len(dataset_meta(manifest))
  /\ LET r == dataset_meta(manifest)[row + 1]
     IN /\ r.ghinfo # NULL
        /\ r.Dataset \notin raw
        /\ \/ /\ raw' = raw \cup {r.Dataset}
              /\ calls' = Called(<<"clone_from">> \o G_Checkout(r))
              /\ pc' = pc
           \/ /\ raw' = raw
              /\ calls' = Called(<<"clone_from", "GitCommandError">>)
              /\ pc' = G_AfterCloneFailure
  /\ row' = row + 1
  /\ UNCHANGED <<prog, concept_list, features, rows, raw0, tmp, clts>>
  /\ UNCHANGED makeVars

\* the loop over dataset_meta has ended
G_Done ==
  /\ prog = "fetch" /\ pc = "rows" /\ row = Len(dataset_meta(manifest))
  /\ pc' = "done"
  /\ UNCHANGED <<prog, concept_list, features, rows, row, raw, raw0, tmp, calls, clts>>
  /\ UNCHANGED makeVars

\* etc/lexibank.csv of up to n rows, no dataset twice
GithubManifests(n) ==
  {m \in SeqsUpTo(GithubRows, n) :
     \A i, j \in 1..Len(m) : i # j => m[i].Dataset # m[j].Dataset}

InitFetch ==
  /\ prog = "fetch"
  /\ pc = "rows"
  /\ concept_list = <<>>
  /\ features = <<>>
  /\ manifest \in GithubManifests(MaxRows)
  /\ data = NoData
  /\ queue = <<>> /\ cur = NULL /\ idx = 0 /\ nlangs = 0
  /\ languages = <<>> /\ values = <<>> /\ features_found = {}
  /\ objects = NoObjects
  /\ sounds = <<>>
  /\ err = NULL
  /\ run = 1 /\ prev = NULL
  /\ rows = <<>>
  /\ row = 0
  /\ raw0 \in SUBSET {"abvd", "bowernpny"}
  /\ raw = raw0
  /\ tmp = NULL
  /\ calls = [i \in 1..Len(dataset_meta(manifest)) |-> <<>>]
  /\ clts = FALSE

\* cmd_download of either script
SpecFetch ==
  (InitFetch \/ InitDownload) /\
  [][G_NotListed \/ G_Existing \/ G_Clone \/ G_Done
     \/ D_Skip \/ D_Zenodo \/ D_Clone \/ D_Clts]_vars

\* the concept lists of the feature generation
ConceptRows ==
  {ConceptRow(g, "body") : g \in {HEAD, HAND, FIREWOOD, FIRE_WOOD}} \cup
  {ConceptRow(g, "object") : g \in {STONE, FIREWOOD, FIRE_WOOD}} \cup
  {ConceptRow(HAND, "other")}

InitFeatures ==
  /\ prog = "tjuka"
  /\ concept_list \in SeqsUpTo(ConceptRows, MaxConcepts)
  /\ manifest = <<>>
  /\ InitMake
  /\ InitNoDownload

SpecFeatures == InitFeatures /\ [][T_Begin]_vars

\* the manifest in the order of the file at the first invocation
ManifestFile ==
  <<ManifestRow("bowernpny", "10.5281/zenodo.2", "x "),
    ManifestRow("chenhmongmien", " ", "x"),
    ManifestRow("abvd", "10.5281/zenodo.1", "x")>>

InitRerun ==
  /\ prog = "tjuka"
  /\ concept_list = ExampleConceptList
  /\ manifest = ManifestFile
  /\ InitMake
  /\ InitNoDownload

SpecRerun ==
  InitRerun /\
  [][T_Begin \/ T_NextDataset \/ T_Language \/ T_EndDataset \/ T_Write \/ T_Rerun]_vars

Init == InitTjuka \/ InitAnalysed

Next ==
  \/ T_Begin \/ T_NextDataset \/ T_Language \/ T_EndDataset \/ T_Write
  \/ A_BeginPhonology \/ A_Language \/ A_BeginLexicon \/ A_Phonemes

Spec == Init /\ [][Next]_vars

----------------------------------------------------------------------------
(* Properties *)

TableNames == {"phonology", "lexicon", "phonemes"}

LT(t) == objects[t].LanguageTable

VT(t) == objects[t].ValueTable

PT(t) == objects[t].ParameterTable

\* the wordlists whose languages may have put rows into the tables of t
FeedsLanguages(t) ==
  IF prog = "tjuka" THEN Range(DatasetIds)
  ELSE CASE t = "phonology" -> {"lexicore"}
         [] t = "lexicon" -> {"clics"}
         [] t = "phonemes" -> {"lexicore", "clics"}

FeedsValues(t) ==
  IF prog = "tjuka" THEN Range(DatasetIds)
  ELSE CASE t = "phonology" -> {"lexicore"}
         [] t = "lexicon" -> {"clics"}
         [] t = "phonemes" -> {"lexicore"}

\* the language fails the filter of the pass that iterates wordlist w
Fails(w, L) ==
  \/ L.name = NULL \/ L.name = Some("None")
  \/ L.latitude = NULL
  \/ IF w = "lexicore" THEN L.bipa_forms < MinBipaForms ELSE L.concepts < MinConcepts

\* C1 as stated: an input language that fails the filter has no row with its
\* id in any LanguageTable, and no ValueTable row has its id as Language_ID.
C1_ExcludedIdAbsent ==
  \A w \in Wordlists : \A i \in 1..Len(data[w]) :
    Fails(w, data[w][i]) =>
      \A t \in TableNames :
        /\ \A j \in 1..Len(LT(t)) : LT(t)[j].ID # data[w][i].id
        /\ \A j \in 1..Len(VT(t)) : VT(t)[j].Language_ID # data[w][i].id

\* C1 amended: a LanguageTable row has a non-null, non-"None" name and a
\* non-null latitude, and its id (as the Language_ID of a ValueTable row) is
\* the id of an input language that passes name, latitude and the condition
\* of a pass that feeds the table; the phonemes LanguageTable is fed by both
\* passes.
C1_OnlyIncluded ==
  \A t \in TableNames :
    /\ \A j \in 1..Len(LT(t)) :
         /\ LT(t)[j].Name \notin {NULL, Some("None")}
         /\ LT(t)[j].Latitude # NULL
         /\ \E w \in FeedsLanguages(t) : \E i \in 1..Len(data[w]) :
              data[w][i].id = LT(t)[j].ID /\ ~Fails(w, data[w][i])
    /\ \A j \in 1..Len(VT(t)) :
         \E w \in FeedsValues(t) : \E i \in 1..Len(data[w]) :
           data[w][i].id = VT(t)[j].Language_ID /\ ~Fails(w, data[w][i])

\* a run has ended with rows written, and an input language without latitude
\* has left no row
C1_Witness ==
  /\ pc = "done"
  /\ \E t \in TableNames : LT(t) # <<>> /\ VT(t) # <<>>
  /\ \E w \in Wordlists : \E i \in 1..Len(data[w]) :
       /\ data[w][i].latitude = NULL
       /\ \A t \in TableNames :
            /\ \A j \in 1..Len(LT(t)) : LT(t)[j].ID # data[w][i].id
            /\ \A j \in 1..Len(VT(t)) : VT(t)[j].Language_ID # data[w][i].id

FeatureIds ==
  {FEATURES[i].id : i \in 1..Len(FEATURES)} \cup {features[i].id : i \in 1..Len(features)}

CategoriesOf(fid) ==
  IF \E i \in 1..Len(FEATURES) : FEATURES[i].id = fid
  THEN FEATURES[CHOOSE i \in 1..Len(FEATURES) : FEATURES[i].id = fid].categories
  ELSE features[CHOOSE i \in 1..Len(features) : features[i].id = fid].categories

ValueRowOk(r) ==
  r.Parameter_ID \in FeatureIds =>
    LET cats == CategoriesOf(r.Parameter_ID)
    IN IF cats # <<>>
       THEN /\ r.Value # NULL
            /\ \E i \in 1..Len(cats) : cats[i][1] = r.Value[1]
            /\ r.Code_ID = Some(r.Parameter_ID \o "-" \o r.Value[1])
       ELSE r.Code_ID = NULL

\* C2: every emitted value record of a categorical feature has a key of the
\* feature's categories as Value and "{feature id}-{Value}" as Code_ID; the
\* records of the other features have no Code_ID.
C2_CategoricalValues ==
  /\ \A t \in TableNames : \A j \in 1..Len(VT(t)) : ValueRowOk(VT(t)[j])
  /\ \A j \in 1..Len(values) : ValueRowOk(values[j])

\* a record of a categorical and one of a non-categorical feature are out
C2_Witness ==
  \E i, j \in 1..Len(VT("phonology")) :
    /\ VT("phonology")[i].ID = "l1-HasNasalVowels"
    /\ VT("phonology")[i].Code_ID = Some("HasNasalVowels-true")
    /\ VT("phonology")[j].ID = "l1-ConsonantQualitySize"
    /\ VT("phonology")[j].Code_ID = NULL

\* the table the failed pass was writing
FailedPass == IF cur = Some("lexicore") THEN "phonology" ELSE "lexicon"

\* C3: when a categorical value outside the categories ends the run, the
\* assertion names feature and value and no row has been put into the
\* LanguageTable or the ValueTable of the dataset being written.
C3_NoPartialOutput ==
  pc = "failed" =>
    /\ err \in {Some("HasNasalVowels: \"maybe\""), Some("LegAndFoot: \"None\"")}
    /\ LT(FailedPass) = <<>>
    /\ VT(FailedPass) = <<>>

CltsIds == {k[1] : k \in DOMAIN sounds}

Variants(c) == {k[2] : k \in {k \in DOMAIN sounds : k[1] = c}}

TalliedLanguages(c) ==
  {sounds[<<c, g>>][i][1] : <<g, i>> \in
     {gi \in Variants(c) \X (1..MaxLangs) : gi[2] <= Len(sounds[<<c, gi[1]>>])}}

RECURSIVE SumOverVariants(_, _, _)
SumOverVariants(c, gs, lid) ==
  IF gs = {} THEN 0
  ELSE LET g == CHOOSE x \in gs : TRUE
       IN CounterGet(sounds[<<c, g>>], lid) + SumOverVariants(c, gs \ {g}, lid)

AscendingGlyphs(c) ==
  LET ks == Sorted({k \in DOMAIN sounds : k[1] = c})
  IN [i \in 1..Len(ks) |-> ks[i][2]]

\* C4: the flattened tally has one ParameterTable row per canonical id, named
\* by its glyphs in ascending order joined by " / ", and per language with a
\* count under some glyph of the id one ValueTable row, whose Value is the sum
\* of the counts of all glyphs of the id.
C4_Flatten ==
  (prog = "analysed" /\ pc = "done") =>
    /\ Len(PT("phonemes")) = Cardinality(CltsIds)
    /\ \A c \in CltsIds :
         /\ \E i \in 1..Len(PT("phonemes")) :
              /\ PT("phonemes")[i].ID = Join(c)
              /\ PT("phonemes")[i].Name = JoinWith(" / ", AscendingGlyphs(c))
         /\ \A lid \in TalliedLanguages(c) :
              /\ Cardinality({i \in 1..Len(VT("phonemes")) :
                                VT("phonemes")[i].ID = lid \o "-" \o Join(c)}) = 1
              /\ \A i \in 1..Len(VT("phonemes")) :
                   VT("phonemes")[i].ID = lid \o "-" \o Join(c) =>
                     VT("phonemes")[i].Value = SumOverVariants(c, Variants(c), lid)

\* counts 3 under "a" and 2 under "á" have become 5 under "a / á"
C4_Witness ==
  /\ pc = "done"
  /\ <<ReplaceSpaces(LowVowel), <<"a">>>> \in DOMAIN sounds
  /\ sounds[<<ReplaceSpaces(LowVowel), <<"a">>>>] = <<<<"l1", 3>>>>
  /\ \E i \in 1..Len(PT("phonemes")) :
       PT("phonemes")[i].ID = "low_vowel" /\ PT("phonemes")[i].Name = "a / á"
  /\ \E i \in 1..Len(VT("phonemes")) :
       VT("phonemes")[i].ID = "l1-low_vowel" /\ VT("phonemes")[i].Value = 5

GlossesOf(group) ==
  LET sel == SelectSeq(concept_list, LAMBDA r : r.GROUP = group)
  IN [i \in 1..Len(sel) |-> sel[i].CONCEPTICON_GLOSS]

ExpectedId(b, o) ==
  Join(capitalize(slug(b))) \o "And" \o Join(capitalize(slug(o)))

\* the features are the cross product, in the order of the two lists
IsCrossProduct ==
  LET B == GlossesOf("body")
      O == GlossesOf("object")
  IN /\ Len(features) = Len(B) * Len(O)
     /\ \A i \in 1..Len(B) : \A j \in 1..Len(O) :
          features[(i - 1) * Len(O) + j].id = ExpectedId(B[i], O[j])
     /\ (B = <<HEAD, HAND>> /\ O = <<STONE>>) =>
          [k \in 1..Len(features) |-> features[k].id] = <<"HeadAndStone", "HandAndStone">>

DistinctIds == \A i, j \in 1..Len(features) : i # j => features[i].id # features[j].id

DistinctSlugs(glosses) ==
  /\ \A i \in 1..Len(glosses) : slug(glosses[i]) # <<>>
  /\ \A i, j \in 1..Len(glosses) : i # j => slug(glosses[i]) # slug(glosses[j])

\* C5 as stated: |B| * |O| features, one per pair with the id built from the
\* two slugs, and the ids pairwise distinct.
C5_DistinctIds ==
  pc = "languages" => (IsCrossProduct /\ DistinctIds)

\* C5 amended: |B| * |O| features, one per pair with the id built from the
\* two slugs; the ids are pairwise distinct when the glosses of each list
\* have pairwise distinct, non-empty slugs.
C5_CrossProduct ==
  pc = "languages" =>
    /\ IsCrossProduct
    /\ (DistinctSlugs(GlossesOf("body")) /\ DistinctSlugs(GlossesOf("object")))
         => DistinctIds

C5_Witness ==
  /\ pc = "languages"
  /\ GlossesOf("body") = <<HEAD, HAND>> /\ GlossesOf("object") = <<STONE>>
  /\ Len(features) = 2
  /\ features[2].id = "HandAndStone"

\* the languages the tjuka loop has iterated, in the order of iteration
Inputs == Concat([i \in 1..Len(DatasetIds) |-> data[DatasetIds[i]]])

IncludedInputs == SelectSeq(Inputs, T_Included)

\* C6: after cmd_makecldf a generated feature has a ParameterTable row iff
\* its function returned a truthy value for some included language; every
\* Parameter_ID of the ValueTable has a ParameterTable row.
C6_Pruning ==
  (prog = "tjuka" /\ pc = "done") =>
    /\ \A k \in 1..Len(features) :
         (\E j \in 1..Len(PT("lexicon")) : PT("lexicon")[j].ID = features[k].id)
           <=> (\E i \in 1..Len(IncludedInputs) :
                  IncludedInputs[i].fv[features[k].id] = Some(TRUE))
    /\ \A j \in 1..Len(VT("lexicon")) :
         \E k \in 1..Len(PT("lexicon")) :
           PT("lexicon")[k].ID = VT("lexicon")[j].Parameter_ID

\* one feature is kept and one is pruned
C6_Witness ==
  /\ prog = "tjuka" /\ pc = "done"
  /\ \E j \in 1..Len(PT("lexicon")) : PT("lexicon")[j].ID = "HeadAndStone"
  /\ \A j \in 1..Len(PT("lexicon")) : PT("lexicon")[j].ID # "HandAndStone"
  /\ \E j \in 1..Len(VT("lexicon")) : VT("lexicon")[j].ID = "l1-HeadAndStone"

IncludedWithId(id) == SelectSeq(IncludedInputs, LAMBDA L : L.id = id)

RECURSIVE Tags(_)
Tags(n) == IF n = 0 THEN "" ELSE "ClicsCore" \o Tags(n - 1)

\* C8: the row of a language id holds the attributes of the first included
\* language with that id, Incollections holds one tag per included
\* occurrence, and there is one row per id.
C8_FirstWriterWins ==
  (prog = "tjuka" /\ pc \in {"languages", "done"}) =>
    /\ \A id \in LangIds :
         LET occ == IncludedWithId(id)
             at == {i \in 1..Len(languages) : languages[i].ID = id}
         IN /\ Cardinality(at) = IF occ = <<>> THEN 0 ELSE 1
            /\ \A i \in at :
                 /\ languages[i].Name = occ[1].name
                 /\ languages[i].Glottocode = occ[1].glottocode
                 /\ languages[i].Dataset = occ[1].dataset
                 /\ languages[i].Latitude = occ[1].latitude
                 /\ languages[i].Longitude = occ[1].longitude
                 /\ languages[i].Subgroup = occ[1].subgroup
                 /\ languages[i].Family = occ[1].family
                 /\ languages[i].Forms = occ[1].forms
                 /\ languages[i].FormsWithSounds = occ[1].forms_with_sounds
                 /\ languages[i].Concepts = occ[1].concepts
                 /\ languages[i].Incollections = Tags(Len(occ))
    /\ pc = "done" => LT("lexicon") = languages

\* an id included twice, with different names
C8_Witness ==
  /\ prog = "tjuka" /\ pc = "done"
  /\ \E i \in 1..Len(LT("lexicon")) :
       /\ LT("lexicon")[i].Incollections = "ClicsCoreClicsCore"
       /\ LT("lexicon")[i].Name = Some("Foo")
       /\ LT("lexicon")[i].Concepts = 300
       /\ Len(IncludedWithId(LT("lexicon")[i].ID)) = 2
       /\ IncludedWithId(LT("lexicon")[i].ID)[2].name = Some("Bar")

\* C9 as stated: no two ValueTable rows share an ID, whatever languages were
\* processed.
C9_UniqueValueIds ==
  \A t \in TableNames : \A i, j \in 1..Len(VT(t)) :
    i # j => VT(t)[i].ID # VT(t)[j].ID

\* C10: a second invocation over the same datasets, the manifest reordered,
\* writes the same LanguageTable rows.
C10_Repeatable ==
  (run = 2 /\ pc = "done") => Range(LT("lexicon")) = Range(prev[1].LanguageTable)

\* the second invocation has ended, its manifest in another order, with a
\* language that two datasets have
C10_Witness ==
  /\ run = 2 /\ pc = "done"
  /\ manifest # prev[1].manifest
  /\ _datasets(manifest) = <<"abvd", "bowernpny">>
  /\ \E i \in 1..Len(LT("lexicon")) : LT("lexicon")[i].Incollections = "ClicsCoreClicsCore"

\* C7: once download_from_doi has raised TooManyRequests for a row, the
\* download has ended: that one request was made for the row and none after
\* it, no later row has been fetched or cloned, and the directory of that row
\* and of every later row is in raw/ only if it was there before the run.
C7_RateLimitAbort ==
  \A i \in 1..Len(rows) :
    (\E k \in 1..Len(calls[i]) : calls[i][k] = "TooManyRequests") =>
      /\ pc = "aborted"
      /\ row = i
      /\ calls[i] = <<"download_from_doi", "TooManyRequests">>
      /\ \A j \in (i + 1)..Len(rows) : calls[j] = <<>>
      /\ \A j \in i..Len(rows) : rows[j].Dataset \in raw => rows[j].Dataset \in raw0
      /\ ~clts

\* the limit was hit at the first of two rows, after which nothing was done
C7_Witness ==
  /\ pc = "aborted"
  /\ Len(rows) = 2 /\ row = 1
  /\ calls = <<<<"download_from_doi", "TooManyRequests">>, <<>>>>
  /\ rows[2].Dataset \notin raw

\* the datasets cmd_download iterates
Items == IF prog = "fetch" THEN dataset_meta(manifest) ELSE rows

CloneFailed(i) ==
  /\ Len(calls[i]) >= 2
  /\ calls[i][1] = "clone_from" /\ calls[i][2] = "GitCommandError"

FirstCall(j) == IF calls[j] = <<>> THEN "" ELSE calls[j][1]

\* what is done first for a dataset, by its row and the state of raw/ before
\* the run alone
ExpectedFirst(r) ==
  IF prog = "fetch"
  THEN (IF r.ghinfo = NULL THEN "KeyError"
        ELSE IF r.Dataset \in raw0 THEN "fetch" ELSE "clone_from")
  ELSE (IF Strip(r.LexiCore) = "" /\ Strip(r.ClicsCore) = "" THEN ""
        ELSE IF r.Dataset \in raw0 THEN ""
        ELSE IF r.Zenodo # "" THEN "download_from_doi" ELSE "clone_from")

\* C11: when the clone of dataset i fails, nothing else is called for i (no
\* checkout), the command does not end at i, and every later dataset the loop
\* has passed was fetched, cloned or downloaded as its own row and the
\* directories present before the run prescribe; a run that ends normally
\* has passed every dataset.
C11_CloneFailureIsolated ==
  \A i \in 1..Len(Items) :
    CloneFailed(i) =>
      /\ calls[i] = <<"clone_from", "GitCommandError">>
      /\ Items[i].Dataset \in raw => Items[i].Dataset \in raw0
      /\ i <= row
      /\ pc \in {"aborted", "crashed"} => row > i
      /\ \A j \in (i + 1)..row : FirstCall(j) = ExpectedFirst(Items[j])
      /\ pc = "done" => row = Len(Items)

\* the first clone failed, the second dataset was cloned and its tag checked
\* out, and the command ended normally
C11_Witness ==
  /\ prog = "fetch" /\ pc = "done"
  /\ calls = <<<<"clone_from", "GitCommandError">>, <<"clone_from", "checkout_tag">>>>
  /\ raw = raw0 \cup {Items[2].Dataset}

\* C12 as stated: no run of cmd_download performs a merge.
C12_NeverMerges ==
  \A i \in 1..Len(calls) : \A k \in 1..Len(calls[i]) : calls[i][k] # "merge"

RECURSIVE SegmentSum(_, _)
\* the occurrences of the segments of an inventory under a key
SegmentSum(segs, key) ==
  IF segs = <<>> THEN 0
  ELSE (IF <<ReplaceSpaces(Head(segs).name), Head(segs).s>> = key
        THEN Head(segs).occs ELSE 0) + SegmentSum(Tail(segs), key)

RECURSIVE LanguageSum(_, _, _)
\* the same over the included languages with id lid of the phonology pass
LanguageSum(ls, key, lid) ==
  IF ls = <<>> THEN 0
  ELSE (IF Head(ls).id = lid /\ Included("phonology", Head(ls))
        THEN SegmentSum(Head(ls).segments, key) ELSE 0)
       + LanguageSum(Tail(ls), key, lid)

InputKeys ==
  {<<ReplaceSpaces(L.segments[k].name), L.segments[k].s>> :
     <<L, k>> \in {Lk \in Range(data["lexicore"]) \X (1..2) : Lk[2] <= Len(Lk[1].segments)}}

\* C13 as stated: after the phonology pass the tally of a key and a language
\* is the sum of the occurrence counts of the segments of the included
\* language under that key, and excluded languages have no entry.
C13_TallySums ==
  (prog = "analysed" /\ pc \in {"lexicon", "done"}) =>
    \A key \in DOMAIN sounds \cup InputKeys : \A lid \in LangIds :
      CounterGet(SoundsGet(sounds, key), lid) = LanguageSum(data["lexicore"], key, lid)

====
